---- MODULE Spec2Model ----
(***************************************************************************)
(* Model of release.py, the release script of the csv-tools monorepo.      *)
(* The script reads each tool's version from its Cargo.toml, asks the      *)
(* operator for confirmation, resolves HEAD, deletes the tags              *)
(* <tool>_v<version> (best effort), recreates them on HEAD, pushes them in *)
(* one batch and triggers one GitHub Actions workflow per tool.            *)
(*                                                                         *)
(* The git repository (local tags, remote tags, HEAD), the manifest files, *)
(* the operator's answer and the CI service are the environment; every     *)
(* external command is one step of the model.                              *)
(***************************************************************************)
EXTENDS Integers, Sequences, FiniteSets, TLC

(* ------------------------------ bounds --------------------------------- *)

\* number of manifests that may be broken in the initial state
MaxBroken == 1
\* number of tools whose manifest carries the second version
MaxBumped == 1
\* number of environment failures injected in a behaviour of SpecRerun
MaxFaults == 1
\* number of runs of the script in a behaviour of SpecRerun
MaxRuns == 2

(* ---------------------------- environment ------------------------------ *)

Unlimited == 0 - 1
NoExit == 0 - 1
NoCommit == "none"
OldCommit == "c0"
FirstHead == "abc123"
NextHead == "def456"
Commits == {OldCommit, FirstHead, NextHead}

OldVersion == "0.9.0"
BaseVersion == "1.0.0"
BumpedVersion == "2.3.1"
Versions == {BaseVersion, BumpedVersion}

\* TOOLS: the registry, in registration (dict insertion) order
ToolNames == <<"catcsv", "fixed2csv", "geochunk", "hashcsv", "scrubcsv">>
NumTools == Len(ToolNames)
ToolSet == {ToolNames[i] : i \in 1..NumTools}
TOOLS == [tool \in ToolSet |-> tool \o "/Cargo.toml"]
Paths == {TOOLS[tool] : tool \in ToolSet}

\* mutant: the tag carries the previous version, not the one read
TagNameOld(tool, version) == tool \o "_v" \o "0.9.0"

\* f"{tool}_v{version}"
TagName(tool, version) == tool \o "_v" \o version
\* mutant: another file extension
WorkflowNameYaml(tool) == "ci-" \o tool \o ".yaml"

\* f"ci-{tool}.yml"
WorkflowName(tool) == "ci-" \o tool \o ".yml"

AllTags == {TagName(tool, v) : tool \in ToolSet, v \in Versions \cup {OldVersion}}

\* a parsed manifest: readable (exists and is well-formed TOML), with or
\* without a package table, with or without a version key in it
GoodManifest(v) ==
    [readable |-> TRUE, hasPackage |-> TRUE, hasVersion |-> TRUE, version |-> v]
BrokenManifests ==
    { [readable |-> FALSE, hasPackage |-> FALSE, hasVersion |-> FALSE, version |-> ""],
      [readable |-> TRUE, hasPackage |-> FALSE, hasVersion |-> FALSE, version |-> ""],
      [readable |-> TRUE, hasPackage |-> TRUE, hasVersion |-> FALSE, version |-> ""] }

\* what the operator may type at the prompt, as sequences of characters
Responses ==
    { <<"Y", "e", "s">>, <<" ", "y", " ">>,
      <<>>, <<"n">>, <<"y", "e">>, <<"N", "o", " ">> }

VARIABLES
    files,        \* path -> manifest content
    head,         \* the commit HEAD points at
    localTags,    \* tag name -> commit, in the local repository
    remoteTags,   \* tag name -> commit, on origin
    ciRuns,       \* workflow runs started on the CI service, <<workflow, ref>>
    pc,           \* position of main()
    exitCode,     \* process exit status, NoExit while running
    versions,     \* main: versions
    typed,        \* what the operator typed at the prompt
    response,     \* main: response
    commit,       \* main: commit
    idx,          \* position of the current loop over versions.items()
    sub,          \* delete_existing_tags: which of the two commands is next
    tags,         \* create_and_push_tags: tags
    cmdLog,       \* the commands run_command has run in this run
    triggered,    \* workflow runs started by this run
    startLocal,   \* localTags when this run started
    startRemote,  \* remoteTags when this run started
    history,      \* the runs that ended before this one
    budget        \* environment failures that may still be injected

env == <<files, head, localTags, remoteTags, ciRuns>>
prog == <<pc, exitCode, versions, typed, response, commit, idx, sub, tags>>
obs == <<cmdLog, triggered, startLocal, startRemote, history, budget>>
vars == <<env, prog, obs>>

(* --------------------------- pure functions ---------------------------- *)

IsSpace(c) == c \in {" ", "\t", "\n"}

\* str.strip(): drop leading and trailing whitespace
RECURSIVE LStrip(_)
LStrip(s) == IF s # <<>> /\ IsSpace(Head(s)) THEN LStrip(Tail(s)) ELSE s
RECURSIVE RStrip(_)
RStrip(s) ==
    IF s # <<>> /\ IsSpace(s[Len(s)]) THEN RStrip(SubSeq(s, 1, Len(s) - 1)) ELSE s
Strip(s) == RStrip(LStrip(s))

\* str.lower()
LowerChar(c) ==
    CASE c = "Y" -> "y"
      [] c = "E" -> "e"
      [] c = "S" -> "s"
      [] c = "N" -> "n"
      [] c = "O" -> "o"
      [] OTHER -> c
Lower(s) == [i \in DOMAIN s |-> LowerChar(s[i])]

\* mutant: an empty answer counts as yes
AffirmativeOrEmpty(r) == r \in {<<"y">>, <<"y", "e", "s">>, <<>>}

\* main: response not in ["y", "yes"]
Affirmative(r) == r \in {<<"y">>, <<"y", "e", "s">>}

\* mutant: the presence of package.version is not checked
get_version_unchecked(content) ==
    [ok |-> content.readable, version |-> content.version]

\* get_version_from_cargo_toml: the version, or an exception
get_version_from_cargo_toml(content) ==
    IF ~content.readable
    THEN [ok |-> FALSE, version |-> ""]
    ELSE IF ~content.hasPackage \/ ~content.hasVersion
         THEN [ok |-> FALSE, version |-> ""]
         ELSE [ok |-> TRUE, version |-> content.version]

\* mutant: every tool gets the version of the first manifest
get_current_versions_first(fs) ==
    LET read(i) == get_version_from_cargo_toml(fs[TOOLS[ToolNames[i]]])
    IN  IF \A i \in 1..NumTools : read(i).ok
        THEN [ok |-> TRUE,
              versions |-> [i \in 1..NumTools |-> <<ToolNames[i], read(1).version>>]]
        ELSE [ok |-> FALSE, versions |-> <<>>]

\* mutant: the items come out in reverse registration order
get_current_versions_reversed(fs) ==
    LET read(i) == get_version_from_cargo_toml(fs[TOOLS[ToolNames[i]]])
    IN  IF \A i \in 1..NumTools : read(i).ok
        THEN [ok |-> TRUE,
              versions |-> [i \in 1..NumTools |->
                  <<ToolNames[NumTools + 1 - i], read(NumTools + 1 - i).version>>]]
        ELSE [ok |-> FALSE, versions |-> <<>>]

\* get_current_versions: the items of the versions dict in insertion
\* order, or the first exception
get_current_versions(fs) ==
    LET read(i) == get_version_from_cargo_toml(fs[TOOLS[ToolNames[i]]])
    IN  IF \A i \in 1..NumTools : read(i).ok
        THEN [ok |-> TRUE,
              versions |-> [i \in 1..NumTools |-> <<ToolNames[i], read(i).version>>]]
        ELSE [ok |-> FALSE, versions |-> <<>>]

\* def run_command(cmd, check=True)
DefaultCheck == TRUE

\* mutant: a failed command never ends the run
RunCommandNeverExits(check, rc) == FALSE

\* mutant: the check flag is not looked at
RunCommandAlwaysChecks(check, rc) == rc # 0

\* run_command: sys.exit(1) when check is set and the command failed
RunCommandExits(check, rc) == check /\ rc # 0

(* ------------------------- external commands --------------------------- *)

Rc(ok) == IF ok THEN 0 ELSE 1

\* git tag -d <tag>: fails when the tag does not exist (or on a fault)
GitTagDelete(store, tag, fault) ==
    LET ok == store[tag] # NoCommit /\ ~fault
    IN  [rc |-> Rc(ok),
         store |-> IF ok THEN [store EXCEPT ![tag] = NoCommit] ELSE store]

\* git push origin :refs/tags/<tag>: fails when origin has no such tag
GitPushDelete(store, tag, fault) ==
    LET ok == store[tag] # NoCommit /\ ~fault
    IN  [rc |-> Rc(ok),
         store |-> IF ok THEN [store EXCEPT ![tag] = NoCommit] ELSE store]

\* git tag <tag> <commit>: fails when the tag already exists
GitTagCreate(store, tag, c, fault) ==
    LET ok == store[tag] = NoCommit /\ ~fault
    IN  [rc |-> Rc(ok),
         store |-> IF ok THEN [store EXCEPT ![tag] = c] ELSE store]

\* the tags of a push that origin can take: new ones, and ones it already
\* holds at the same commit; a tag held at another commit is rejected
Pushable(local, remote, ts) ==
    {t \in ts : local[t] # NoCommit /\ remote[t] \in {NoCommit, local[t]}}

\* git push origin <tags>: origin takes the accepted tags; the command
\* succeeds only when it took every tag
GitPush(local, remote, ts, accepted) ==
    [rc |-> Rc(accepted = ts),
     store |-> [t \in DOMAIN remote |->
                  IF t \in accepted THEN local[t] ELSE remote[t]]]

\* gh workflow run <workflow> --ref <tag>: the ref must exist on origin
GhWorkflowRun(remote, workflow, ref, fault) ==
    Rc(remote[ref] # NoCommit /\ ~fault)

(* ------------------------------ helpers -------------------------------- *)

SeqSet(s) == {s[i] : i \in DOMAIN s}
Logged(argv, check, rc) == [argv |-> argv, check |-> check, rc |-> rc]
MayFail(fault) == fault => budget # 0
Spend(fault) == IF fault /\ budget > 0 THEN budget - 1 ELSE budget
EmptyStore == [t \in AllTags |-> NoCommit]

\* mutant: a failed command is run again instead of ending the run
Exit1Retry == UNCHANGED <<pc, exitCode>>

\* mutant: the failure path exits with status 0
Exit1Zero == /\ pc' = "Failed"
             /\ exitCode' = 0

\* sys.exit(1) inside run_command
Exit1 == /\ pc' = "Failed"
         /\ exitCode' = 1

(* ------------------------------- Init ---------------------------------- *)

\* a repository that has never been released, or one where the previous
\* and the current version of every tool were tagged at an older commit
InitialStores(fs) ==
    { EmptyStore,
      [t \in AllTags |->
         IF \E tool \in ToolSet :
               \/ t = TagName(tool, OldVersion)
               \/ fs[TOOLS[tool]].hasVersion /\ t = TagName(tool, fs[TOOLS[tool]].version)
         THEN OldCommit ELSE NoCommit] }

InitialFiles ==
    { fs \in [Paths -> {GoodManifest(v) : v \in Versions} \cup BrokenManifests] :
        /\ Cardinality({p \in Paths : fs[p] \in BrokenManifests}) <= MaxBroken
        /\ Cardinality({p \in Paths : fs[p] = GoodManifest(BumpedVersion)}) <= MaxBumped }

StartOfRun ==
    /\ pc = "ReadVersions"
    /\ exitCode = NoExit
    /\ versions = <<>>
    /\ typed = <<>>
    /\ response = <<>>
    /\ commit = NoCommit
    /\ idx = 1
    /\ sub = "local"
    /\ tags = <<>>
    /\ cmdLog = <<>>
    /\ triggered = <<>>

\* every manifest is good and the second tool is one version ahead
ExampleFiles ==
    [p \in Paths |->
       IF p = TOOLS[ToolNames[2]] THEN GoodManifest(BumpedVersion)
       ELSE GoodManifest(BaseVersion)]

InitEnv ==
    /\ head = FirstHead
    /\ \E st \in InitialStores(files) :
          /\ localTags = st
          /\ remoteTags = st
          /\ startLocal = st
          /\ startRemote = st
    /\ ciRuns = <<>>
    /\ history = <<>>
    /\ StartOfRun

\* one run of the script, any command may fail
Init ==
    /\ files \in InitialFiles
    /\ InitEnv
    /\ budget = Unlimited

\* the operator may run the script again, a bounded number of failures
InitRerun ==
    /\ files = ExampleFiles
    /\ InitEnv
    /\ budget = MaxFaults

(* ------------------------------ actions -------------------------------- *)

\* main: versions = get_current_versions(); an exception ends the process
\* with exit status 1
ReadVersions ==
    /\ pc = "ReadVersions"
    /\ LET r == get_current_versions(files)
       IN  IF r.ok
           THEN /\ versions' = r.versions
                /\ pc' = "Confirm"
                /\ UNCHANGED exitCode
           ELSE /\ Exit1
                /\ UNCHANGED versions
    /\ UNCHANGED <<env, typed, response, commit, idx, sub, tags, obs>>

\* main: the confirmation prompt
Confirm(input) ==
    /\ pc = "Confirm"
    /\ typed' = input
    /\ response' = Lower(Strip(input))
    /\ IF ~Affirmative(response')
       THEN /\ pc' = "Aborted"
            /\ exitCode' = 0
       ELSE /\ pc' = "ResolveCommit"
            /\ UNCHANGED exitCode
    /\ UNCHANGED <<env, versions, commit, idx, sub, tags, obs>>

\* main: input() raises EOFError when standard input is closed; the
\* exception ends the process with exit status 1
ConfirmEOF ==
    /\ pc = "Confirm"
    /\ Exit1
    /\ UNCHANGED <<env, versions, typed, response, commit, idx, sub, tags, obs>>

\* mutant: main creates the tags without deleting the existing ones first
ResolveCommitThenCreate(fault) ==
    /\ pc = "ResolveCommit"
    /\ MayFail(fault)
    /\ budget' = Spend(fault)
    /\ LET rc == Rc(~fault)
       IN  /\ cmdLog' = Append(cmdLog, Logged(<<"git", "rev-parse", "HEAD">>, DefaultCheck, rc))
           /\ IF RunCommandExits(DefaultCheck, rc)
              THEN /\ Exit1
                   /\ UNCHANGED commit
              ELSE /\ commit' = head
                   /\ pc' = "CreateAndPushTags"
                   /\ UNCHANGED exitCode
    /\ UNCHANGED <<env, versions, typed, response, idx, sub, tags>>
    /\ UNCHANGED <<triggered, startLocal, startRemote, history>>

\* main: commit = run_command(["git", "rev-parse", "HEAD"])
ResolveCommit(fault) ==
    /\ pc = "ResolveCommit"
    /\ MayFail(fault)
    /\ budget' = Spend(fault)
    /\ LET rc == Rc(~fault)
       IN  /\ cmdLog' = Append(cmdLog, Logged(<<"git", "rev-parse", "HEAD">>, DefaultCheck, rc))
           /\ IF RunCommandExits(DefaultCheck, rc)
              THEN /\ Exit1
                   /\ UNCHANGED commit
              ELSE /\ commit' = head
                   /\ pc' = "DeleteTags"
                   /\ UNCHANGED exitCode
    /\ UNCHANGED <<env, versions, typed, response, idx, sub, tags>>
    /\ UNCHANGED <<triggered, startLocal, startRemote, history>>

\* mutant: the local delete is run with the default check=True
DeleteLocalTagStrict(fault) ==
    /\ pc = "DeleteTags"
    /\ sub = "local"
    /\ MayFail(fault)
    /\ budget' = Spend(fault /\ localTags[TagName(versions[idx][1], versions[idx][2])] # NoCommit)
    /\ LET tag == TagName(versions[idx][1], versions[idx][2])
           r == GitTagDelete(localTags, tag, fault)
       IN  /\ cmdLog' = Append(cmdLog, Logged(<<"git", "tag", "-d", tag>>, DefaultCheck, r.rc))
           /\ localTags' = r.store
           /\ IF RunCommandExits(DefaultCheck, r.rc)
              THEN /\ Exit1
                   /\ UNCHANGED sub
              ELSE /\ sub' = "remote"
                   /\ UNCHANGED <<pc, exitCode>>
    /\ UNCHANGED <<files, head, remoteTags, ciRuns>>
    /\ UNCHANGED <<versions, typed, response, commit, idx, tags>>
    /\ UNCHANGED <<triggered, startLocal, startRemote, history>>

\* delete_existing_tags: run_command(["git", "tag", "-d", tag], check=False)
DeleteLocalTag(fault) ==
    /\ pc = "DeleteTags"
    /\ sub = "local"
    /\ MayFail(fault)
    /\ budget' = Spend(fault /\ localTags[TagName(versions[idx][1], versions[idx][2])] # NoCommit)
    /\ LET tag == TagName(versions[idx][1], versions[idx][2])
           r == GitTagDelete(localTags, tag, fault)
       IN  /\ cmdLog' = Append(cmdLog, Logged(<<"git", "tag", "-d", tag>>, FALSE, r.rc))
           /\ localTags' = r.store
           /\ IF RunCommandExits(FALSE, r.rc)
              THEN /\ Exit1
                   /\ UNCHANGED sub
              ELSE /\ sub' = "remote"
                   /\ UNCHANGED <<pc, exitCode>>
    /\ UNCHANGED <<files, head, remoteTags, ciRuns>>
    /\ UNCHANGED <<versions, typed, response, commit, idx, tags>>
    /\ UNCHANGED <<triggered, startLocal, startRemote, history>>

\* mutant: the tag is deleted locally only
DeleteRemoteTagSkipped(fault) ==
    /\ pc = "DeleteTags"
    /\ sub = "remote"
    /\ ~fault
    /\ sub' = "local"
    /\ IF idx < Len(versions)
       THEN /\ idx' = idx + 1
            /\ UNCHANGED pc
       ELSE /\ idx' = 1
            /\ pc' = "CreateAndPushTags"
    /\ UNCHANGED <<env, exitCode, versions, typed, response, commit, tags, obs>>

\* delete_existing_tags:
\* run_command(["git", "push", "origin", f":refs/tags/{tag}"], check=False)
DeleteRemoteTag(fault) ==
    /\ pc = "DeleteTags"
    /\ sub = "remote"
    /\ MayFail(fault)
    /\ budget' = Spend(fault /\ remoteTags[TagName(versions[idx][1], versions[idx][2])] # NoCommit)
    /\ LET tag == TagName(versions[idx][1], versions[idx][2])
           r == GitPushDelete(remoteTags, tag, fault)
       IN  /\ cmdLog' = Append(cmdLog,
                   Logged(<<"git", "push", "origin", ":refs/tags/" \o tag>>, FALSE, r.rc))
           /\ remoteTags' = r.store
           /\ IF RunCommandExits(FALSE, r.rc)
              THEN /\ Exit1
                   /\ UNCHANGED <<sub, idx>>
              ELSE /\ sub' = "local"
                   /\ IF idx < Len(versions)
                      THEN /\ idx' = idx + 1
                           /\ UNCHANGED pc
                      ELSE /\ idx' = 1
                           /\ pc' = "CreateAndPushTags"
                   /\ UNCHANGED exitCode
    /\ UNCHANGED <<files, head, localTags, ciRuns>>
    /\ UNCHANGED <<versions, typed, response, commit, tags>>
    /\ UNCHANGED <<triggered, startLocal, startRemote, history>>

\* create_and_push_tags, the loop body: tags.append(tag);
\* run_command(["git", "tag", tag, commit])
CreateTag(fault) ==
    /\ pc = "CreateAndPushTags"
    /\ idx <= Len(versions)
    /\ MayFail(fault)
    /\ budget' = Spend(fault /\ localTags[TagName(versions[idx][1], versions[idx][2])] = NoCommit)
    /\ LET tag == TagName(versions[idx][1], versions[idx][2])
           r == GitTagCreate(localTags, tag, commit, fault)
       IN  /\ tags' = Append(tags, tag)
           /\ cmdLog' = Append(cmdLog, Logged(<<"git", "tag", tag, commit>>, DefaultCheck, r.rc))
           /\ localTags' = r.store
           /\ IF RunCommandExits(DefaultCheck, r.rc)
              THEN /\ Exit1
                   /\ UNCHANGED idx
              ELSE /\ idx' = idx + 1
                   /\ UNCHANGED <<pc, exitCode>>
    /\ UNCHANGED <<files, head, remoteTags, ciRuns>>
    /\ UNCHANGED <<versions, typed, response, commit, sub>>
    /\ UNCHANGED <<triggered, startLocal, startRemote, history>>

\* mutant: the push names the loop variable instead of the list
PushTagsLast(accepted) ==
    /\ pc = "CreateAndPushTags"
    /\ idx = Len(versions) + 1
    /\ accepted \subseteq Pushable(localTags, remoteTags, {tags[Len(tags)]})
    /\ MayFail(accepted # Pushable(localTags, remoteTags, {tags[Len(tags)]}))
    /\ budget' = Spend(accepted # Pushable(localTags, remoteTags, {tags[Len(tags)]}))
    /\ LET r == GitPush(localTags, remoteTags, {tags[Len(tags)]}, accepted)
       IN  /\ cmdLog' = Append(cmdLog,
                   Logged(<<"git", "push", "origin", tags[Len(tags)]>>, DefaultCheck, r.rc))
           /\ remoteTags' = r.store
           /\ IF RunCommandExits(DefaultCheck, r.rc)
              THEN /\ Exit1
                   /\ UNCHANGED idx
              ELSE /\ idx' = 1
                   /\ pc' = "TriggerWorkflows"
                   /\ UNCHANGED exitCode
    /\ UNCHANGED <<files, head, localTags, ciRuns>>
    /\ UNCHANGED <<versions, typed, response, commit, sub, tags>>
    /\ UNCHANGED <<triggered, startLocal, startRemote, history>>

\* mutant: the push sits inside the loop, after every created tag
PushTagsEarly(accepted) ==
    /\ pc = "CreateAndPushTags"
    /\ idx > 1
    /\ cmdLog[Len(cmdLog)].argv[2] = "tag"
    /\ accepted \subseteq Pushable(localTags, remoteTags, SeqSet(tags))
    /\ MayFail(accepted # Pushable(localTags, remoteTags, SeqSet(tags)))
    /\ budget' = Spend(accepted # Pushable(localTags, remoteTags, SeqSet(tags)))
    /\ LET r == GitPush(localTags, remoteTags, SeqSet(tags), accepted)
       IN  /\ cmdLog' = Append(cmdLog, Logged(<<"git", "push", "origin">> \o tags, DefaultCheck, r.rc))
           /\ remoteTags' = r.store
           /\ IF RunCommandExits(DefaultCheck, r.rc)
              THEN /\ Exit1
                   /\ UNCHANGED idx
              ELSE IF idx = Len(versions) + 1
                   THEN /\ idx' = 1
                        /\ pc' = "TriggerWorkflows"
                        /\ UNCHANGED exitCode
                   ELSE UNCHANGED <<idx, pc, exitCode>>
    /\ UNCHANGED <<files, head, localTags, ciRuns>>
    /\ UNCHANGED <<versions, typed, response, commit, sub, tags>>
    /\ UNCHANGED <<triggered, startLocal, startRemote, history>>

\* mutant: the push is run with check=False
PushTagsLenient(accepted) ==
    /\ pc = "CreateAndPushTags"
    /\ idx = Len(versions) + 1
    /\ accepted \subseteq Pushable(localTags, remoteTags, SeqSet(tags))
    /\ MayFail(accepted # Pushable(localTags, remoteTags, SeqSet(tags)))
    /\ budget' = Spend(accepted # Pushable(localTags, remoteTags, SeqSet(tags)))
    /\ LET r == GitPush(localTags, remoteTags, SeqSet(tags), accepted)
       IN  /\ cmdLog' = Append(cmdLog, Logged(<<"git", "push", "origin">> \o tags, FALSE, r.rc))
           /\ remoteTags' = r.store
           /\ IF RunCommandExits(FALSE, r.rc)
              THEN /\ Exit1
                   /\ UNCHANGED idx
              ELSE /\ idx' = 1
                   /\ pc' = "TriggerWorkflows"
                   /\ UNCHANGED exitCode
    /\ UNCHANGED <<files, head, localTags, ciRuns>>
    /\ UNCHANGED <<versions, typed, response, commit, sub, tags>>
    /\ UNCHANGED <<triggered, startLocal, startRemote, history>>

\* create_and_push_tags, after the loop:
\* run_command(["git", "push", "origin"] + tags)
PushTags(accepted) ==
    /\ pc = "CreateAndPushTags"
    /\ idx = Len(versions) + 1
    /\ accepted \subseteq Pushable(localTags, remoteTags, SeqSet(tags))
    /\ MayFail(accepted # Pushable(localTags, remoteTags, SeqSet(tags)))
    /\ budget' = Spend(accepted # Pushable(localTags, remoteTags, SeqSet(tags)))
    /\ LET r == GitPush(localTags, remoteTags, SeqSet(tags), accepted)
       IN  /\ cmdLog' = Append(cmdLog, Logged(<<"git", "push", "origin">> \o tags, DefaultCheck, r.rc))
           /\ remoteTags' = r.store
           /\ IF RunCommandExits(DefaultCheck, r.rc)
              THEN /\ Exit1
                   /\ UNCHANGED idx
              ELSE /\ idx' = 1
                   /\ pc' = "TriggerWorkflows"
                   /\ UNCHANGED exitCode
    /\ UNCHANGED <<files, head, localTags, ciRuns>>
    /\ UNCHANGED <<versions, typed, response, commit, sub, tags>>
    /\ UNCHANGED <<triggered, startLocal, startRemote, history>>

\* mutant: the workflow trigger is run with check=False
TriggerWorkflowLenient(fault) ==
    /\ pc = "TriggerWorkflows"
    /\ MayFail(fault)
    /\ budget' = Spend(fault)
    /\ LET tag == TagName(versions[idx][1], versions[idx][2])
           workflow == WorkflowName(versions[idx][1])
           rc == GhWorkflowRun(remoteTags, workflow, tag, fault)
       IN  /\ cmdLog' = Append(cmdLog,
                   Logged(<<"gh", "workflow", "run", workflow, "--ref", tag>>, FALSE, rc))
           /\ IF rc = 0
              THEN /\ triggered' = Append(triggered, <<workflow, tag>>)
                   /\ ciRuns' = Append(ciRuns, <<workflow, tag>>)
              ELSE UNCHANGED <<triggered, ciRuns>>
           /\ IF RunCommandExits(FALSE, rc)
              THEN /\ Exit1
                   /\ UNCHANGED idx
              ELSE IF idx < Len(versions)
                   THEN /\ idx' = idx + 1
                        /\ UNCHANGED <<pc, exitCode>>
                   ELSE /\ idx' = 1
                        /\ pc' = "Done"
                        /\ exitCode' = 0
    /\ UNCHANGED <<files, head, localTags, remoteTags>>
    /\ UNCHANGED <<versions, typed, response, commit, sub, tags>>
    /\ UNCHANGED <<startLocal, startRemote, history>>

\* mutant: a workflow already started for the same tag is not started again
TriggerWorkflowOnce(fault) ==
    LET done == <<WorkflowName(versions[idx][1]),
                  TagName(versions[idx][1], versions[idx][2])>> \in SeqSet(ciRuns)
    IN
    \/ /\ pc = "TriggerWorkflows"
       /\ done
       /\ ~fault
       /\ IF idx < Len(versions)
          THEN /\ idx' = idx + 1
               /\ UNCHANGED <<pc, exitCode>>
          ELSE /\ idx' = 1
               /\ pc' = "Done"
               /\ exitCode' = 0
       /\ UNCHANGED <<env, versions, typed, response, commit, sub, tags, obs>>
    \/ /\ pc = "TriggerWorkflows"
       /\ ~done
       /\ MayFail(fault)
       /\ budget' = Spend(fault)
       /\ LET tag == TagName(versions[idx][1], versions[idx][2])
              workflow == WorkflowName(versions[idx][1])
              rc == GhWorkflowRun(remoteTags, workflow, tag, fault)
          IN  /\ cmdLog' = Append(cmdLog,
                      Logged(<<"gh", "workflow", "run", workflow, "--ref", tag>>, DefaultCheck, rc))
              /\ IF rc = 0
                 THEN /\ triggered' = Append(triggered, <<workflow, tag>>)
                      /\ ciRuns' = Append(ciRuns, <<workflow, tag>>)
                 ELSE UNCHANGED <<triggered, ciRuns>>
              /\ IF RunCommandExits(DefaultCheck, rc)
                 THEN /\ Exit1
                      /\ UNCHANGED idx
                 ELSE IF idx < Len(versions)
                      THEN /\ idx' = idx + 1
                           /\ UNCHANGED <<pc, exitCode>>
                      ELSE /\ idx' = 1
                           /\ pc' = "Done"
                           /\ exitCode' = 0
       /\ UNCHANGED <<files, head, localTags, remoteTags>>
       /\ UNCHANGED <<versions, typed, response, commit, sub, tags>>
       /\ UNCHANGED <<startLocal, startRemote, history>>

\* trigger_workflows, the loop body:
\* run_command(["gh", "workflow", "run", workflow, "--ref", tag]);
\* main returns after the last one and the process ends with status 0
TriggerWorkflow(fault) ==
    /\ pc = "TriggerWorkflows"
    /\ MayFail(fault)
    /\ budget' = Spend(fault)
    /\ LET tag == TagName(versions[idx][1], versions[idx][2])
           workflow == WorkflowName(versions[idx][1])
           rc == GhWorkflowRun(remoteTags, workflow, tag, fault)
       IN  /\ cmdLog' = Append(cmdLog,
                   Logged(<<"gh", "workflow", "run", workflow, "--ref", tag>>, DefaultCheck, rc))
           /\ IF rc = 0
              THEN /\ triggered' = Append(triggered, <<workflow, tag>>)
                   /\ ciRuns' = Append(ciRuns, <<workflow, tag>>)
              ELSE UNCHANGED <<triggered, ciRuns>>
           /\ IF RunCommandExits(DefaultCheck, rc)
              THEN /\ Exit1
                   /\ UNCHANGED idx
              ELSE IF idx < Len(versions)
                   THEN /\ idx' = idx + 1
                        /\ UNCHANGED <<pc, exitCode>>
                   ELSE /\ idx' = 1
                        /\ pc' = "Done"
                        /\ exitCode' = 0
    /\ UNCHANGED <<files, head, localTags, remoteTags>>
    /\ UNCHANGED <<versions, typed, response, commit, sub, tags>>
    /\ UNCHANGED <<startLocal, startRemote, history>>

Terminated == pc \in {"Aborted", "Failed", "Done"}

\* the operator starts the script again, possibly after a new commit
Rerun(newHead) ==
    /\ Terminated
    /\ Len(history) < MaxRuns - 1
    /\ newHead \in {head, NextHead}
    /\ head' = newHead
    /\ history' = Append(history,
          [pc |-> pc, exitCode |-> exitCode, commit |-> commit,
           triggered |-> triggered, budget |-> budget,
           failed |-> IF cmdLog = <<>> THEN <<>> ELSE cmdLog[Len(cmdLog)].argv])
    /\ startLocal' = localTags
    /\ startRemote' = remoteTags
    /\ pc' = "ReadVersions"
    /\ exitCode' = NoExit
    /\ versions' = <<>>
    /\ typed' = <<>>
    /\ response' = <<>>
    /\ commit' = NoCommit
    /\ idx' = 1
    /\ sub' = "local"
    /\ tags' = <<>>
    /\ cmdLog' = <<>>
    /\ triggered' = <<>>
    /\ UNCHANGED <<files, localTags, remoteTags, ciRuns, budget>>

Next ==
    \/ ReadVersions
    \/ \E input \in Responses : Confirm(input)
    \/ ConfirmEOF
    \/ \E fault \in BOOLEAN : ResolveCommit(fault)
    \/ \E fault \in BOOLEAN : DeleteLocalTag(fault)
    \/ \E fault \in BOOLEAN : DeleteRemoteTag(fault)
    \/ \E fault \in BOOLEAN : CreateTag(fault)
    \/ \E accepted \in SUBSET SeqSet(tags) : PushTags(accepted)
    \/ \E fault \in BOOLEAN : TriggerWorkflow(fault)

NextRerun ==
    \/ Next
    \/ \E newHead \in Commits : Rerun(newHead)

Spec == Init /\ [][Next]_vars

\* one run in which every external command and the prompt return
FairSpec == Init /\ [][Next]_vars /\ WF_vars(Next)

SpecRerun == InitRerun /\ [][NextRerun]_vars

TypeOK ==
    /\ pc \in {"ReadVersions", "Confirm", "ResolveCommit", "DeleteTags",
               "CreateAndPushTags", "TriggerWorkflows", "Done", "Aborted", "Failed"}
    /\ exitCode \in {NoExit, 0, 1}
    /\ localTags \in [AllTags -> Commits \cup {NoCommit}]
    /\ remoteTags \in [AllTags -> Commits \cup {NoCommit}]
    /\ idx \in 1..(NumTools + 1)
    /\ sub \in {"local", "remote"}

(* ------------------------ vocabulary of the claims --------------------- *)

\* the version the manifest of the i-th registered tool holds
ManifestVersion(i) == files[ToolNames[i] \o "/Cargo.toml"].version
\* the tag the i-th registered tool is released under
ReleaseTag(i) == ToolNames[i] \o "_v" \o ManifestVersion(i)
\* the workflow run that releases the i-th registered tool
ReleaseRun(i) == <<"ci-" \o ToolNames[i] \o ".yml", ReleaseTag(i)>>
ManifestsGood == \A p \in Paths : files[p] \notin BrokenManifests
LastCmd == cmdLog[Len(cmdLog)]
IsCreate(c, i) == c.argv = <<"git", "tag", ReleaseTag(i), head>>
IsDeleteLocal(c, i) == c.argv = <<"git", "tag", "-d", ReleaseTag(i)>>
IsDeleteRemote(c, i) == c.argv = <<"git", "push", "origin", ":refs/tags/" \o ReleaseTag(i)>>
IsTrigger(c, i) == c.argv = <<"gh", "workflow", "run">> \o <<ReleaseRun(i)[1], "--ref", ReleaseRun(i)[2]>>
IsGit(c) == c.argv # <<>> /\ c.argv[1] = "git"
IsGh(c) == c.argv # <<>> /\ c.argv[1] = "gh"
\* the run ended because the creation of the i-th tool's tag failed
FailedAtCreate(i) ==
    /\ pc = "Failed"
    /\ cmdLog # <<>>
    /\ IsCreate(LastCmd, i)
    /\ LastCmd.rc # 0
\* the operator has answered the prompt: input() has returned a line
Answered == \/ pc \in {"Aborted", "ResolveCommit", "DeleteTags",
                      "CreateAndPushTags", "TriggerWorkflows", "Done"}
            \/ pc = "Failed" /\ cmdLog # <<>>

(* ------------------------------- claims -------------------------------- *)

\* C1: after a successful run (main reaches Done) every registered tool's
\* tag <tool>_v<version>, with the tool's own version from its manifest,
\* is on the remote and points at the commit that was HEAD during the run.
C1_TagsOnRemoteAfterDone ==
    pc = "Done" =>
        \A i \in 1..NumTools : remoteTags[ReleaseTag(i)] = head

\* a successful run that moved already published tags, for tools of
\* different versions
C1_Witness ==
    /\ pc = "Done"
    /\ ManifestVersion(1) # ManifestVersion(2)
    /\ \A i \in 1..NumTools : startRemote[ReleaseTag(i)] = OldCommit

\* C2 as stated: when the tag creation of the second tool fails, the first
\* tool's tag is on the remote, the exit code is 1 and no workflow was
\* triggered.
C2_FirstTagOnRemote ==
    FailedAtCreate(2) =>
        /\ remoteTags[ReleaseTag(1)] # NoCommit
        /\ exitCode = 1
        /\ triggered = <<>>

\* C2 amended: when the tag creation of the second tool fails, the first
\* tool's tag stays in the local repository at the run's commit (no
\* rollback) but was never pushed: the run issued no push of new tags, the
\* remote gained no tag, the exit code is 1 and no workflow was triggered.
C2_FirstTagStaysLocal ==
    FailedAtCreate(2) =>
        /\ localTags[ReleaseTag(1)] = head
        /\ \A k \in DOMAIN cmdLog :
              \/ cmdLog[k].argv = <<"git", "rev-parse", "HEAD">>
              \/ \E i \in 1..NumTools :
                    \/ IsDeleteLocal(cmdLog[k], i)
                    \/ IsDeleteRemote(cmdLog[k], i)
                    \/ IsCreate(cmdLog[k], i)
        /\ \A t \in AllTags : remoteTags[t] \in {NoCommit, startRemote[t]}
        /\ exitCode = 1
        /\ triggered = <<>>
        /\ ciRuns = <<>>

\* the second creation failed in a repository whose remote does not hold
\* the first tool's tag any more
C2_Witness ==
    /\ FailedAtCreate(2)
    /\ startRemote[ReleaseTag(1)] = OldCommit
    /\ remoteTags[ReleaseTag(1)] = NoCommit
    /\ localTags[ReleaseTag(1)] = head

\* C3: when a manifest is unreadable or lacks package.version the run ends
\* in ReadVersions with exit code 1 and nothing has happened: no command
\* was run, no tag changed locally or remotely, no commit was resolved, no
\* workflow was triggered; and the prompt is reached only with exactly one
\* version for every registered tool, in registration order.
C3_BrokenManifestAbortsFirst ==
    /\ (~ManifestsGood /\ pc # "ReadVersions") =>
          /\ pc = "Failed"
          /\ exitCode = 1
          /\ cmdLog = <<>>
          /\ localTags = startLocal
          /\ remoteTags = startRemote
          /\ commit = NoCommit
          /\ triggered = <<>>
          /\ ciRuns = <<>>
          /\ typed = <<>>
    /\ pc \in {"Confirm", "ResolveCommit", "DeleteTags", "CreateAndPushTags",
               "TriggerWorkflows", "Done", "Aborted"} =>
          /\ Len(versions) = NumTools
          /\ \A i \in 1..NumTools :
                /\ versions[i] = <<ToolNames[i], ManifestVersion(i)>>
                /\ ManifestVersion(i) \in Versions

\* the third tool's manifest has a package table without version, in a
\* repository that holds tags the run would have deleted
C3_Witness ==
    /\ pc = "Failed"
    /\ files[ToolNames[3] \o "/Cargo.toml"] =
          [readable |-> TRUE, hasPackage |-> TRUE, hasVersion |-> FALSE, version |-> ""]
    /\ \A i \in {1, 2, 4, 5} : remoteTags[ReleaseTag(i)] = OldCommit

\* C4 as stated: an answer that is not y or yes, compared without regard
\* to case, ends the run with exit code 0 and without any command or any
\* change of the local or remote tags.
C4_NotYesAborts ==
    (Answered /\ Lower(typed) \notin {<<"y">>, <<"y", "e", "s">>}) =>
        /\ pc = "Aborted"
        /\ exitCode = 0
        /\ cmdLog = <<>>
        /\ localTags = startLocal
        /\ remoteTags = startRemote
        /\ triggered = <<>>
        /\ ciRuns = <<>>

\* C4 amended: an answer that, once leading and trailing whitespace is
\* removed, is not y or yes, compared without regard to case, ends the run
\* with exit code 0 and without any command (git or gh) or any change of
\* the local or remote tags.
C4_NotYesAfterStripAborts ==
    (Answered /\ Lower(Strip(typed)) \notin {<<"y">>, <<"y", "e", "s">>}) =>
        /\ pc = "Aborted"
        /\ exitCode = 0
        /\ cmdLog = <<>>
        /\ commit = NoCommit
        /\ localTags = startLocal
        /\ remoteTags = startRemote
        /\ triggered = <<>>
        /\ ciRuns = <<>>

\* the operator answered "No " in a repository that holds the tags
C4_Witness ==
    /\ pc = "Aborted"
    /\ typed = <<"N", "o", " ">>
    /\ \A i \in 1..NumTools : remoteTags[ReleaseTag(i)] = OldCommit

IsDelete(c) == \E i \in 1..NumTools : IsDeleteLocal(c, i) \/ IsDeleteRemote(c, i)
\* rev-parse, tag creation, the push of the new tags, gh workflow run
IsStrict(c) == ~IsDelete(c)
BatchPush == <<"git", "push", "origin">> \o [i \in 1..NumTools |-> ReleaseTag(i)]
Triggers(log) == {k \in DOMAIN log : IsGh(log[k])}

\* C6: a failed strict command (rev-parse, tag creation, the push of the
\* new tags, gh workflow run) is the last command of its run, the run has
\* ended with exit code 1, and what the run did before stays: the tags it
\* created are in the local repository, the tags of a successful push are
\* on the remote, and the workflow runs it started are started.
C6_StrictFailureEndsRun ==
    \A k \in DOMAIN cmdLog :
        (IsStrict(cmdLog[k]) /\ cmdLog[k].rc # 0) =>
            /\ k = Len(cmdLog)
            /\ pc = "Failed"
            /\ exitCode = 1
            /\ \A j \in 1..(k - 1) :
                  /\ (\E i \in 1..NumTools : IsCreate(cmdLog[j], i)) =>
                        localTags[cmdLog[j].argv[3]] = head
                  /\ cmdLog[j].argv = BatchPush =>
                        \A i \in 1..NumTools : remoteTags[ReleaseTag(i)] = head
                  /\ \A i \in 1..NumTools :
                        IsTrigger(cmdLog[j], i) =>
                            /\ i <= Len(triggered)
                            /\ triggered[i] = ReleaseRun(i)
            /\ ciRuns = triggered
            /\ Len(triggered) = Cardinality(Triggers(cmdLog) \ {k})

\* the third workflow trigger failed after tags were created and pushed
\* and two workflows were started
C6_Witness ==
    /\ pc = "Failed"
    /\ cmdLog # <<>>
    /\ IsTrigger(LastCmd, 3)
    /\ LastCmd.rc # 0
    /\ Len(ciRuns) = 2
    /\ \A i \in 1..NumTools : localTags[ReleaseTag(i)] = head /\ remoteTags[ReleaseTag(i)] = head

PastDeleteTags ==
    \/ pc \in {"CreateAndPushTags", "TriggerWorkflows", "Done"}
    \/ /\ pc = "Failed"
       /\ cmdLog # <<>>
       /\ LastCmd.argv # <<"git", "rev-parse", "HEAD">>

\* C7: no outcome of the delete commands ends the run: a run never fails
\* on a delete command, it is still running throughout DeleteTags, and
\* once it is past DeleteTags it has attempted the local and the remote
\* delete of every tool, 2*N commands, whatever their exit status.
C7_DeleteTagsCannotFail ==
    /\ (pc = "Failed" /\ cmdLog # <<>>) => IsStrict(LastCmd)
    /\ pc = "DeleteTags" => exitCode = NoExit
    /\ PastDeleteTags =>
          /\ Len(cmdLog) >= 2 * NumTools + 1
          /\ \A i \in 1..NumTools :
                /\ IsDeleteLocal(cmdLog[2 * i], i)
                /\ IsDeleteRemote(cmdLog[2 * i + 1], i)

\* every delete command failed, on tags that did exist, and the run is in
\* CreateAndPushTags
C7_Witness ==
    /\ pc = "CreateAndPushTags"
    /\ Len(cmdLog) = 2 * NumTools + 1
    /\ \A k \in 2..(2 * NumTools + 1) : cmdLog[k].rc # 0
    /\ \A i \in 1..NumTools : startRemote[ReleaseTag(i)] = OldCommit

\* a git push that is not the deletion of a remote tag
IsTagPush(c) ==
    /\ Len(c.argv) >= 3
    /\ SubSeq(c.argv, 1, 3) = <<"git", "push", "origin">>
    /\ ~\E t \in AllTags : c.argv = <<"git", "push", "origin", ":refs/tags/" \o t>>
TagPushes == {k \in DOMAIN cmdLog : IsTagPush(cmdLog[k])}

\* C8: a run pushes new tags with at most one command, and with exactly
\* one once it triggers workflows; that command comes right after the N
\* successful tag creations and names all N tags, in registration order;
\* when it succeeds every tool's tag is on the remote at the run's commit,
\* and when it fails it is the last command of the run, which ends with
\* exit code 1.
C8_OneBatchPush ==
    /\ Cardinality(TagPushes) <= 1
    /\ pc \in {"TriggerWorkflows", "Done"} => Cardinality(TagPushes) = 1
    /\ \A k \in TagPushes :
          /\ cmdLog[k].argv = BatchPush
          /\ k = 3 * NumTools + 2
          /\ \A i \in 1..NumTools :
                /\ IsCreate(cmdLog[2 * NumTools + 1 + i], i)
                /\ cmdLog[2 * NumTools + 1 + i].rc = 0
                /\ localTags[ReleaseTag(i)] = head
          /\ IF cmdLog[k].rc = 0
             THEN \A i \in 1..NumTools : remoteTags[ReleaseTag(i)] = head
             ELSE /\ k = Len(cmdLog)
                  /\ pc = "Failed"
                  /\ exitCode = 1

\* the one push failed and origin nevertheless took the first tool's tag
\* but not the second's
C8_Witness ==
    /\ pc = "Failed"
    /\ cmdLog # <<>>
    /\ LastCmd.argv = BatchPush
    /\ LastCmd.rc # 0
    /\ startRemote[ReleaseTag(1)] = NoCommit
    /\ remoteTags[ReleaseTag(1)] = head
    /\ remoteTags[ReleaseTag(2)] = NoCommit

\* C9: in a run that reaches Done exactly one workflow was triggered per
\* registered tool, in registration order; the one of tool t is ci-<t>.yml
\* at the ref <t>_v<version of t>, the tag the run pushed for t.
C9_OneWorkflowPerTool ==
    pc = "Done" =>
        /\ triggered = [i \in 1..NumTools |-> ReleaseRun(i)]
        /\ ciRuns = triggered
        /\ Len(cmdLog) = 4 * NumTools + 2
        /\ \A i \in 1..NumTools :
              /\ IsTrigger(cmdLog[3 * NumTools + 2 + i], i)
              /\ remoteTags[ReleaseRun(i)[2]] = head

\* a run reached Done for tools of different versions
C9_Witness ==
    /\ pc = "Done"
    /\ Len(triggered) = NumTools
    /\ ManifestVersion(2) # ManifestVersion(3)

\* C10: when the trigger of the k-th tool's workflow fails, it is the last
\* command of the run, the workflows started are exactly those of the
\* first k-1 tools, in order, no trigger was attempted for a later tool,
\* every tool's tag is still on the remote at the run's commit and the
\* exit code is 1.
C10_TriggerFailureStopsLoop ==
    \A p \in DOMAIN cmdLog : \A k \in 1..NumTools :
        (IsTrigger(cmdLog[p], k) /\ cmdLog[p].rc # 0) =>
            /\ p = Len(cmdLog)
            /\ pc = "Failed"
            /\ exitCode = 1
            /\ triggered = [i \in 1..(k - 1) |-> ReleaseRun(i)]
            /\ ciRuns = triggered
            /\ Cardinality(Triggers(cmdLog)) = k
            /\ \A i \in 1..NumTools : remoteTags[ReleaseTag(i)] = head

\* the trigger of the fourth tool failed after three workflows were started
C10_Witness ==
    /\ pc = "Failed"
    /\ cmdLog # <<>>
    /\ IsTrigger(LastCmd, 4)
    /\ LastCmd.rc # 0
    /\ Len(triggered) = 3

\* the second of two runs at the same commit, the first of which reached Done
SecondRunAfterDone ==
    /\ Len(history) = 1
    /\ history[1].pc = "Done"
    /\ history[1].commit = head
\* no command has failed for a reason outside the repository's state
NoFault == budget = MaxFaults
EndOfDeleteTags ==
    /\ pc = "CreateAndPushTags"
    /\ idx = 1
    /\ tags = <<>>

\* C5: in a second run at the same commit after a run that reached Done,
\* the tags exist when the run starts; when the operator confirms and no
\* command fails for an outside reason the run does not fail, every delete
\* command succeeds and at the end of DeleteTags the tags are gone locally
\* and remotely; and when the second run reaches Done the local and the
\* remote tags are what they were after the first run.
C5_SecondRunSameTags ==
    SecondRunAfterDone =>
        /\ \A i \in 1..NumTools :
              /\ startLocal[ReleaseTag(i)] = head
              /\ startRemote[ReleaseTag(i)] = head
        /\ (NoFault /\ Answered) => pc # "Failed"
        /\ (NoFault /\ EndOfDeleteTags) =>
              /\ Len(cmdLog) = 2 * NumTools + 1
              /\ \A k \in 2..(2 * NumTools + 1) : cmdLog[k].rc = 0
              /\ \A i \in 1..NumTools :
                    /\ localTags[ReleaseTag(i)] = NoCommit
                    /\ remoteTags[ReleaseTag(i)] = NoCommit
        /\ pc = "Done" =>
              /\ localTags = startLocal
              /\ remoteTags = startRemote
              /\ exitCode = 0

\* two runs in a row reached Done at the same commit without any failure
C5_Witness ==
    /\ SecondRunAfterDone
    /\ NoFault
    /\ pc = "Done"
    /\ \A k \in 2..(2 * NumTools + 1) : cmdLog[k].rc = 0

\* every command of a complete run succeeded, every tool's tag is on the
\* remote at the run's commit and every tool's workflow was started
FullSuccess ==
    /\ Len(cmdLog) = 4 * NumTools + 2
    /\ \A k \in DOMAIN cmdLog : IsStrict(cmdLog[k]) => cmdLog[k].rc = 0
    /\ triggered = [i \in 1..NumTools |-> ReleaseRun(i)]
    /\ \A i \in 1..NumTools : remoteTags[ReleaseTag(i)] = head
\* the operator declined at the prompt
UserAbort ==
    /\ pc = "Aborted"
    /\ ManifestsGood
    /\ Lower(Strip(typed)) \notin {<<"y">>, <<"y", "e", "s">>}
    /\ cmdLog = <<>>

\* C11: the process has an exit code exactly when the run has ended; the
\* code is 0 exactly when the operator declined at the prompt or the run
\* went through every phase with every strict command successful, and it
\* is 1 for every other ending: a broken manifest, a failed rev-parse, a
\* failed tag creation, push or workflow trigger.
C11_ExitCode ==
    /\ exitCode = NoExit <=> ~Terminated
    /\ Terminated =>
          /\ exitCode \in {0, 1}
          /\ exitCode = 0 <=> (UserAbort \/ FullSuccess)
    /\ (Terminated /\ ~ManifestsGood) => exitCode = 1
    /\ \A k \in DOMAIN cmdLog :
          (IsStrict(cmdLog[k]) /\ cmdLog[k].rc # 0) => exitCode = 1
    /\ pc = "Done" => FullSuccess
    /\ pc = "Aborted" => UserAbort

\* the run ended on a failed rev-parse, with exit code 1
C11_Witness ==
    /\ pc = "Failed"
    /\ cmdLog # <<>>
    /\ LastCmd.argv = <<"git", "rev-parse", "HEAD">>
    /\ LastCmd.rc # 0
    /\ exitCode = 1

\* the runs before this one, and the one just before it
PreviousRun == history[Len(history)]
\* no command of this run has failed for a reason outside the repository
NoFaultThisRun ==
    budget = IF history = <<>> THEN MaxFaults ELSE PreviousRun.budget
\* the previous run ended on a failed tag creation, push or workflow trigger
RerunAfterLateFailure ==
    /\ history # <<>>
    /\ PreviousRun.pc = "Failed"
    /\ \/ PreviousRun.failed = BatchPush
       \/ \E i \in 1..NumTools :
             \/ PreviousRun.failed = <<"git", "tag", ReleaseTag(i), PreviousRun.commit>>
             \/ PreviousRun.failed =
                   <<"gh", "workflow", "run", ReleaseRun(i)[1], "--ref", ReleaseRun(i)[2]>>

\* C12: in a run that follows one that failed in CreateAndPushTags or
\* TriggerWorkflows, and in which no command fails for an outside reason,
\* the tags the failed run left behind do not fail the run: once the
\* operator has confirmed the run is never Failed, at the end of DeleteTags
\* no tool's tag is left locally or remotely, and at Done every tool's tag
\* is in the local repository and on the remote at this run's HEAD.
C12_RerunAfterFailureSucceeds ==
    (RerunAfterLateFailure /\ NoFaultThisRun) =>
        /\ Answered => pc # "Failed"
        /\ EndOfDeleteTags =>
              \A i \in 1..NumTools :
                  /\ localTags[ReleaseTag(i)] = NoCommit
                  /\ remoteTags[ReleaseTag(i)] = NoCommit
        /\ pc = "Done" =>
              \A i \in 1..NumTools :
                  /\ localTags[ReleaseTag(i)] = head
                  /\ remoteTags[ReleaseTag(i)] = head

\* after a push of which origin took only a part, and a new commit, the
\* next run reached Done
C12_Witness ==
    /\ RerunAfterLateFailure
    /\ NoFaultThisRun
    /\ PreviousRun.failed = BatchPush
    /\ \E i, j \in 1..NumTools :
          /\ startRemote[ReleaseTag(i)] = FirstHead
          /\ startRemote[ReleaseTag(j)] = NoCommit
    /\ head = NextHead
    /\ pc = "Done"

PhaseRank ==
    [ph \in {"ReadVersions", "Confirm", "ResolveCommit", "DeleteTags",
             "CreateAndPushTags", "TriggerWorkflows", "Done", "Aborted", "Failed"} |->
       CASE ph = "ReadVersions" -> 1
         [] ph = "Confirm" -> 2
         [] ph = "ResolveCommit" -> 3
         [] ph = "DeleteTags" -> 4
         [] ph = "CreateAndPushTags" -> 5
         [] ph = "TriggerWorkflows" -> 6
         [] ph = "Done" -> 7
         [] OTHER -> 8]

\* the commands of a run, by position: the rev-parse, then the delete
\* commands, then the tag creations, then the push, then the triggers
LogInPhaseOrder ==
    /\ Len(cmdLog) <= 4 * NumTools + 2
    /\ \A k \in DOMAIN cmdLog :
          CASE k = 1 -> cmdLog[k].argv = <<"git", "rev-parse", "HEAD">>
            [] k \in 2..(2 * NumTools + 1) -> IsDelete(cmdLog[k])
            [] k \in (2 * NumTools + 2)..(3 * NumTools + 1) ->
                  \E i \in 1..NumTools : IsCreate(cmdLog[k], i)
            [] k = 3 * NumTools + 2 -> cmdLog[k].argv = BatchPush
            [] OTHER -> \E i \in 1..NumTools : IsTrigger(cmdLog[k], i)

\* the phase main is in, by the number of commands run so far
PhaseMatchesLog ==
    /\ pc \in {"ReadVersions", "Confirm", "ResolveCommit", "Aborted"} => cmdLog = <<>>
    /\ pc = "DeleteTags" => Len(cmdLog) \in 1..(2 * NumTools)
    /\ pc = "CreateAndPushTags" => Len(cmdLog) \in (2 * NumTools + 1)..(3 * NumTools + 1)
    /\ pc = "TriggerWorkflows" => Len(cmdLog) \in (3 * NumTools + 2)..(4 * NumTools + 1)
    /\ pc = "Done" => Len(cmdLog) = 4 * NumTools + 2

\* a step stays in its phase, enters the next one, or ends the run, and
\* only adds to the commands run
PhaseForward ==
    /\ \/ pc' = pc
       \/ pc' \in {"Aborted", "Failed"}
       \/ PhaseRank[pc'] = PhaseRank[pc] + 1
    /\ pc \in {"Done", "Aborted", "Failed"} => pc' = pc
    /\ Len(cmdLog') >= Len(cmdLog)
    /\ SubSeq(cmdLog', 1, Len(cmdLog)) = cmdLog

\* C13: the phases of a run follow one another in the order ReadVersions,
\* Confirm, ResolveCommit, DeleteTags, CreateAndPushTags, TriggerWorkflows,
\* Done: every step stays in its phase, enters the next phase or ends the
\* run, no phase is entered again, and the commands of the run are the
\* rev-parse, then every delete, then every tag creation, then the push,
\* then the workflow triggers.
C13_PhasesInOrder ==
    /\ [](LogInPhaseOrder /\ PhaseMatchesLog)
    /\ [][PhaseForward]_vars

\* a complete run: rev-parse first, deletes, creations, the push, and the
\* last tool's trigger last
C13_Witness ==
    /\ pc = "Done"
    /\ cmdLog[1].argv = <<"git", "rev-parse", "HEAD">>
    /\ IsDeleteLocal(cmdLog[2], 1)
    /\ IsCreate(cmdLog[2 * NumTools + 2], 1)
    /\ cmdLog[3 * NumTools + 2].argv = BatchPush
    /\ IsTrigger(cmdLog[4 * NumTools + 2], NumTools)

\* C14: the delete commands, the tag creations and the names in the pushed
\* batch all follow the registration order of the tools; the local delete
\* of a tool comes right before its remote delete, and after a local delete
\* the run is about to issue the remote delete of the same tool, whatever
\* the local delete returned.
C14_RegistrationOrder ==
    /\ \A i \in 1..NumTools :
          /\ 2 * i \in DOMAIN cmdLog => IsDeleteLocal(cmdLog[2 * i], i)
          /\ 2 * i + 1 \in DOMAIN cmdLog => IsDeleteRemote(cmdLog[2 * i + 1], i)
          /\ 2 * NumTools + 1 + i \in DOMAIN cmdLog =>
                IsCreate(cmdLog[2 * NumTools + 1 + i], i)
          /\ Len(cmdLog) = 2 * i =>
                /\ pc = "DeleteTags"
                /\ sub = "remote"
                /\ versions[idx] = <<ToolNames[i], ManifestVersion(i)>>
    /\ 3 * NumTools + 2 \in DOMAIN cmdLog =>
          cmdLog[3 * NumTools + 2].argv =
              <<"git", "push", "origin">> \o [i \in 1..NumTools |-> ReleaseTag(i)]
    /\ pc = "CreateAndPushTags" =>
          tags = [i \in 1..Len(tags) |-> ReleaseTag(i)]

\* the local delete of the second tool failed, its remote delete was
\* attempted and succeeded, and the run went on to the third tool
C14_Witness ==
    /\ Len(cmdLog) >= 6
    /\ cmdLog[4].rc # 0
    /\ cmdLog[5].rc = 0
    /\ IsDeleteLocal(cmdLog[6], 3)

\* how many times a workflow run was started on the CI service
Started(run) == Cardinality({j \in DOMAIN ciRuns : ciRuns[j] = run})

\* C15: when a run fails at the trigger of the k-th tool and the next run
\* reaches Done, that run has triggered every tool's workflow again: the
\* workflows of the first k-1 tools were started twice for the same tag,
\* those of the other tools once.
C15_TriggersRepeatOnRerun ==
    \A k \in 1..NumTools :
        ( /\ Len(history) = 1
          /\ PreviousRun.pc = "Failed"
          /\ PreviousRun.failed =
                <<"gh", "workflow", "run", ReleaseRun(k)[1], "--ref", ReleaseRun(k)[2]>>
          /\ pc = "Done" ) =>
            /\ PreviousRun.triggered = [i \in 1..(k - 1) |-> ReleaseRun(i)]
            /\ triggered = [i \in 1..NumTools |-> ReleaseRun(i)]
            /\ ciRuns = PreviousRun.triggered \o triggered
            /\ \A i \in 1..NumTools :
                  Started(ReleaseRun(i)) = IF i < k THEN 2 ELSE 1

\* the first run failed at the third tool's trigger and the second run
\* reached Done: seven workflow runs were started
C15_Witness ==
    /\ Len(history) = 1
    /\ PreviousRun.pc = "Failed"
    /\ Len(PreviousRun.triggered) = 2
    /\ pc = "Done"
    /\ Len(ciRuns) = NumTools + 2
    /\ Started(ReleaseRun(1)) = 2

\* C16: a run issues at most 1 + 2N + N + 1 + N commands and never the
\* same command twice, and, as long as every command and the prompt
\* return, it ends as Aborted, Failed or Done.
C16_RunTerminates ==
    /\ [](/\ Len(cmdLog) <= 1 + 2 * NumTools + NumTools + 1 + NumTools
          /\ \A j, k \in DOMAIN cmdLog : cmdLog[j].argv = cmdLog[k].argv => j = k)
    /\ <>(pc \in {"Aborted", "Failed", "Done"})

\* a run that ended on its last possible command, the failed trigger of
\* the last tool
C16_Witness ==
    /\ pc = "Failed"
    /\ Len(cmdLog) = 4 * NumTools + 2
    /\ LastCmd.rc # 0

\* C17: once a run has started a workflow, its batch push has succeeded:
\* the push is in the log with exit status 0, every registered tool's tag
\* is on the remote at the run's commit, and every ref a workflow was
\* started at is one of these pushed tags.
C17_TriggerOnlyAfterPush ==
    (triggered # <<>> \/ \E k \in DOMAIN cmdLog : IsGh(cmdLog[k]) /\ cmdLog[k].rc = 0) =>
        /\ Len(cmdLog) > 3 * NumTools + 2
        /\ cmdLog[3 * NumTools + 2].argv = BatchPush
        /\ cmdLog[3 * NumTools + 2].rc = 0
        /\ \A i \in 1..NumTools : remoteTags[ReleaseTag(i)] = head
        /\ \A j \in DOMAIN triggered :
              /\ triggered[j][2] \in {ReleaseTag(i) : i \in 1..NumTools}
              /\ remoteTags[triggered[j][2]] = head

\* only the first tool's workflow has been started, and the last tool's
\* tag is already on the remote
C17_Witness ==
    /\ pc = "TriggerWorkflows"
    /\ Len(triggered) = 1
    /\ remoteTags[ReleaseTag(NumTools)] = head
    /\ startRemote[ReleaseTag(NumTools)] = NoCommit

\* the tags of this run: <tool>_v<version> for every registered tool
ReleaseTags == {ReleaseTag(i) : i \in 1..NumTools}

\* C18: throughout a run, whether it succeeds or fails, every local and
\* remote tag other than the <tool>_v<version> of a registered tool and its
\* version read by this run is what it was when the run started, and every
\* git command of the run other than the rev-parse is a delete, a creation
\* or the batch push of exactly those tags.
C18_OtherTagsUntouched ==
    /\ \A t \in AllTags \ ReleaseTags :
          /\ localTags[t] = startLocal[t]
          /\ remoteTags[t] = startRemote[t]
    /\ \A k \in DOMAIN cmdLog :
          IsGit(cmdLog[k]) =>
              \/ cmdLog[k].argv = <<"git", "rev-parse", "HEAD">>
              \/ IsDelete(cmdLog[k])
              \/ \E i \in 1..NumTools : IsCreate(cmdLog[k], i)
              \/ cmdLog[k].argv = BatchPush

\* a failed run removed the first tool's current tag from the remote
\* while the tag of its previous version is still there, locally and
\* remotely
C18_Witness ==
    /\ pc = "Failed"
    /\ ManifestsGood
    /\ startRemote[ReleaseTag(1)] = OldCommit
    /\ remoteTags[ReleaseTag(1)] = NoCommit
    /\ remoteTags[ToolNames[1] \o "_v" \o OldVersion] = OldCommit
    /\ localTags[ToolNames[1] \o "_v" \o OldVersion] = OldCommit

\* every one of the 2*N delete commands of the run returned 0
AllDeletesSucceeded ==
    /\ Len(cmdLog) >= 2 * NumTools + 1
    /\ \A k \in 2..(2 * NumTools + 1) : cmdLog[k].rc = 0
FailedAtSomeCreate ==
    /\ pc = "Failed"
    /\ cmdLog # <<>>
    /\ LastCmd.rc # 0
    /\ \E i \in 1..NumTools : IsCreate(LastCmd, i)
FailedAtPush ==
    /\ pc = "Failed"
    /\ cmdLog # <<>>
    /\ LastCmd.rc # 0
    /\ LastCmd.argv = BatchPush
OnRemote(store) == {i \in 1..NumTools : store[ReleaseTag(i)] # NoCommit}

\* C19 as stated: when every delete command succeeded and the run failed
\* at a tag creation or at the batch push, none of the tools' current tags
\* is on the remote.
C19_NoTagOnRemoteAfterFailure ==
    (AllDeletesSucceeded /\ (FailedAtSomeCreate \/ FailedAtPush)) =>
        OnRemote(remoteTags) = {}

\* C19 amended: when every delete command succeeded, every tool's tag was
\* on the remote before the run; if the run then fails at a tag creation,
\* none of them is on the remote; if it fails at the batch push, the remote
\* holds only the tags origin took from that push, at the run's commit, and
\* not all of them. In both cases the remote is left with fewer of the
\* tools' tags than it had before the run.
C19_FewerTagsAfterFailure ==
    (AllDeletesSucceeded /\ (FailedAtSomeCreate \/ FailedAtPush)) =>
        /\ OnRemote(startRemote) = 1..NumTools
        /\ FailedAtSomeCreate => OnRemote(remoteTags) = {}
        /\ FailedAtPush =>
              /\ OnRemote(remoteTags) # 1..NumTools
              /\ \A i \in OnRemote(remoteTags) : remoteTags[ReleaseTag(i)] = head
        /\ Cardinality(OnRemote(remoteTags)) < Cardinality(OnRemote(startRemote))

\* the creation of the third tool's tag failed after every delete had
\* succeeded: the tags published before the run are gone from the remote
C19_Witness ==
    /\ AllDeletesSucceeded
    /\ FailedAtSomeCreate
    /\ IsCreate(LastCmd, 3)
    /\ \A i \in 1..NumTools :
          /\ startRemote[ReleaseTag(i)] = OldCommit
          /\ remoteTags[ReleaseTag(i)] = NoCommit

====
